---- MODULE Spec2Model ----
(***************************************************************************)
(* State-machine model of src/main.py (scriptblox-bot): the poll cycle     *)
(* process_scripts, the retrying fetch_scripts, webhook_send, the          *)
(* posted.json store (load_posted_ids / save_posted_ids), the scheduler    *)
(* loop main_loop and the event handlers on_ready / on_disconnect.         *)
(*                                                                         *)
(* Coroutines are cut at their await points: everything between two        *)
(* awaits runs atomically on the asyncio event loop.  File I/O of          *)
(* save_posted_ids is synchronous, so a save is part of the step that      *)
(* calls it; a save can succeed, raise, or be cut by a process kill.       *)
(* The main_loop tasks run the same code and share every variable but      *)
(* their locals, so the tasks that are not inside process_scripts are      *)
(* counted by position and only the running invocations keep locals.       *)
(***************************************************************************)
EXTENDS Integers, Sequences, FiniteSets, TLC

(***************************************************************************)
(* Bounds and program constants                                            *)
(***************************************************************************)
MAX_RETRIES == 3
MinScriptLen == 5
MaxListing == 2
MaxLoops == 2

Ids == {"a", "b"}
NoId == ""


(***************************************************************************)
(* Items of the listing.  _id is "" when the field is absent, None or      *)
(* empty (all falsy in `if s.get("_id")`); script is a sequence of         *)
(* characters, <<>> when absent, None or empty (`.get("script","") or ""`).*)
(***************************************************************************)
Item(i, s, p) == [_id |-> i, script |-> s, isPatched |-> p]

GoodScript == <<"p", "r", "i", "n", "t">>
BannedScript == <<"x", "N", "i", "L", "y">>

Catalogue ==
  { Item("a", GoodScript, FALSE),
    Item("b", GoodScript, FALSE),
    Item("b", BannedScript, FALSE),
    Item(NoId, GoodScript, FALSE) }

RECURSIVE SeqsUpTo(_, _)
SeqsUpTo(S, n) ==
  IF n = 0 THEN {<<>>}
  ELSE LET shorter == SeqsUpTo(S, n - 1)
       IN  shorter \cup {Append(q, x) : q \in shorter, x \in S}

Listings == SeqsUpTo(Catalogue, MaxListing)

(***************************************************************************)
(* script_is_broken                                                        *)
(***************************************************************************)
Lower(c) ==
  CASE c = "N" -> "n"
    [] c = "I" -> "i"
    [] c = "L" -> "l"
    [] c = "E" -> "e"
    [] c = "R" -> "r"
    [] c = "O" -> "o"
    [] c = "F" -> "f"
    [] c = "A" -> "a"
    [] c = "V" -> "v"
    [] c = "D" -> "d"
    [] c = "P" -> "p"
    [] c = "T" -> "t"
    [] c = "C" -> "c"
    [] c = "H" -> "h"
    [] OTHER -> c

LowerSeq(s) == [k \in 1..Len(s) |-> Lower(s[k])]

banned ==
  { <<"e", "r", "r", "o", "r">>,
    <<"n", "i", "l">>,
    <<"i", "n", "v", "a", "l", "i", "d">>,
    <<"f", "a", "i", "l">>,
    <<"p", "a", "t", "c", "h", "e", "d">> }

Contains(s, bad) ==
  \E k \in 1..Len(s) :
    /\ k + Len(bad) - 1 <= Len(s)
    /\ SubSeq(s, k, k + Len(bad) - 1) = bad

\* script_is_broken without the lower() of line 96
script_is_broken_case_sensitive(script_data) ==
  \/ script_data.isPatched
  \/ Len(script_data.script) < MinScriptLen
  \/ \E bad \in banned : Contains(script_data.script, bad)

script_is_broken(script_data) ==
  \/ script_data.isPatched
  \/ Len(script_data.script) < MinScriptLen
  \/ \E bad \in banned : Contains(LowerSeq(script_data.script), bad)

(***************************************************************************)
(* posted.json as a sequence of JSON tokens.  NoFile: the path does not    *)
(* exist.                                                                  *)
(***************************************************************************)
NoFile == <<"ENOENT">>
Punct == {"[", "]", ",", "{", "}", "null", "ENOENT"}

RECURSIVE Join(_)
Join(q) ==
  IF Len(q) = 0 THEN <<>>
  ELSE IF Len(q) = 1 THEN <<q[1]>>
  ELSE <<q[1], ",">> \o Join(Tail(q))

\* json.dump(list, f, indent=4) of a list of strings
json_dump(q) == <<"[">> \o Join(q) \o <<"]">>

\* list(posted_ids): the elements of the set in an order the build chooses
ListsOf(S) ==
  {q \in [1..Cardinality(S) -> S] : \A x \in S : \E k \in 1..Cardinality(S) : q[k] = x}

Dumps(S) == {json_dump(q) : q \in ListsOf(S)}

IsArray(f) ==
  /\ Len(f) >= 2
  /\ f[1] = "["
  /\ f[Len(f)] = "]"
  /\ LET inner == SubSeq(f, 2, Len(f) - 1)
     IN  \/ Len(inner) = 0
         \/ /\ Len(inner) % 2 = 1
            /\ \A k \in 1..Len(inner) :
                 IF k % 2 = 1 THEN inner[k] \notin Punct ELSE inner[k] = ","

\* json.load: "error" when the text is not JSON, otherwise the kind of value
json_load(f) ==
  IF IsArray(f)
  THEN LET inner == SubSeq(f, 2, Len(f) - 1)
       IN  [kind |-> "list", elems |-> {inner[k] : k \in {j \in 1..Len(inner) : j % 2 = 1}}]
  ELSE IF f = <<"{", "}">> \/ f = <<"null">>
  THEN [kind |-> "other", elems |-> {}]
  ELSE [kind |-> "error", elems |-> {}]

\* every strict prefix of a token sequence: what a cut-off write leaves
Prefixes(f) == {SubSeq(f, 1, k) : k \in 0..(Len(f) - 1)}

(***************************************************************************)
(* save_posted_ids: the outcomes of one call that writes the set `ids`     *)
(* while the canonical file holds `f`.  status "ok": returned after the    *)
(* move; "error": an exception was caught (temp file removed); "crash":    *)
(* the process was killed inside the call.  stray: a temp file is left.    *)
(* mkstemp creates the temp file in the system temp directory, so          *)
(* shutil.move is os.rename when that is on the file system of the         *)
(* working directory (same_fs) and copy-then-unlink otherwise.             *)
(***************************************************************************)
SaveOut(st, f, t) == [status |-> st, file |-> f, stray |-> t]

\* save_posted_ids without the shutil.move of line 63: the dump stays in the
\* temp file
save_without_move(ids, f, same_fs) ==
  {SaveOut("error", f, FALSE), SaveOut("crash", f, TRUE), SaveOut("ok", f, TRUE)}

save_posted_ids(ids, f, same_fs) ==
  LET news == Dumps(ids)
  IN  \* mkstemp raises, the write raises, or the move raises before touching f
      {SaveOut("error", f, FALSE)}
      \cup \* killed while the temp file is being written or before the move
      {SaveOut("crash", f, TRUE)}
      \cup \* the move completes
      {SaveOut("ok", new, FALSE) : new \in news}
      \cup
      (IF same_fs THEN {}
       ELSE \* copy to the canonical path, cut off by an exception or a kill
            {SaveOut("error", p, FALSE) : p \in UNION {Prefixes(new) : new \in news}}
            \cup {SaveOut("crash", p, TRUE) : p \in UNION {Prefixes(new) : new \in news}}
            \cup \* killed after the copy, before os.unlink(temp)
            {SaveOut("crash", new, TRUE) : new \in news})

\* load_posted_ids with `isinstance(data, dict)` at line 48: a list is dropped
load_drops_list(f) ==
  IF f = NoFile THEN [ids |-> {}, resave |-> FALSE]
  ELSE LET data == json_load(f)
       IN  IF data.kind = "error" THEN [ids |-> {}, resave |-> TRUE]
           ELSE [ids |-> {}, resave |-> FALSE]

\* load_posted_ids without the save_posted_ids() of line 53
load_without_resave(f) ==
  IF f = NoFile THEN [ids |-> {}, resave |-> FALSE]
  ELSE LET data == json_load(f)
       IN  IF data.kind = "list" THEN [ids |-> data.elems, resave |-> FALSE]
           ELSE [ids |-> {}, resave |-> FALSE]

(***************************************************************************)
(* load_posted_ids: the set it leaves in posted_ids and whether it goes    *)
(* on to call save_posted_ids (the except branch).                         *)
(***************************************************************************)
load_posted_ids(f) ==
  IF f = NoFile THEN [ids |-> {}, resave |-> FALSE]
  ELSE LET data == json_load(f)
       IN  IF data.kind = "error" THEN [ids |-> {}, resave |-> TRUE]
           ELSE IF data.kind = "list" THEN [ids |-> data.elems, resave |-> FALSE]
           ELSE [ids |-> {}, resave |-> FALSE]

(***************************************************************************)
(* State                                                                   *)
(***************************************************************************)
VARIABLES
  file,          \* content of posted.json (token sequence) or NoFile
  same_fs,       \* deployment: temp directory on the file system of posted.json
  posted_ids,    \* global posted_ids
  is_checking,   \* global is_checking
  http_session,  \* global http_session: "None" or "open"
  starting,      \* main_loop tasks created by on_ready that have not run yet
  sleeping,      \* main_loop tasks in asyncio.sleep(CHECK_INTERVAL), line 306
  cycles,        \* process_scripts invocations past the guard, with their locals
  ev,            \* history: the last handler step taken
  hist,          \* which of the history variables below are recorded
  delivered,     \* history: identifiers the sink accepted in this process
  failed,        \* history: identifiers whose latest delivery attempt failed
  cyc,           \* history: the running cycle (S at pruning, D, all accepted)
  last,          \* history: the listing of the last completed cycle
  loaded,        \* history: identifiers load_posted_ids read in this process
  leaked         \* history: sessions whose reference was overwritten while open

vars == <<file, same_fs, posted_ids, is_checking, http_session, starting,
          sleeping, cycles, ev, hist, loaded, leaked, delivered, failed, cyc, last>>

\* where an invocation of process_scripts is suspended: the request of
\* fetch_scripts (line 152) or its back-off sleep, the post of webhook_send
\* (line 218), the sleep of line 286
Running == {"get", "post", "pause"}

\* locals of an invocation: `scripts`, the position of the for loop in it
\* (1-based, 0 before the loop) and `attempt` of fetch_scripts
Cycle(p, s, i, a) == [pc |-> p, scripts |-> s, idx |-> i, attempt |-> a]

Tasks == starting + sleeping + Len(cycles)

RemoveAt(q, k) == [j \in 1..(Len(q) - 1) |-> IF j < k THEN q[j] ELSE q[j + 1]]

\* History records.  s and the cycle records are kept only in the
\* specifications that check claims about them (hist), to keep the others small.
NoEvent ==
  [op |-> "init", id |-> NoId, s |-> <<>>, save |-> "none", ids |-> {},
   after_save |-> FALSE, body |-> "none", wait |-> 0]
Event(op) == [NoEvent EXCEPT !.op = op]

NoCycle == [S |-> {}, D |-> {}, clean |-> TRUE]
NoLast == [ok |-> FALSE, s |-> <<>>]

InitFiles ==
  {NoFile, <<>>, <<"[", "a">>, <<"{", "}">>}
  \cup UNION {Dumps(S) : S \in SUBSET Ids}

TypeOK ==
  /\ same_fs \in BOOLEAN
  /\ posted_ids \in SUBSET Ids
  /\ is_checking \in BOOLEAN
  /\ http_session \in {"None", "open"}
  /\ starting \in 0..MaxLoops
  /\ sleeping \in 0..MaxLoops
  /\ Tasks <= MaxLoops
  /\ \A k \in DOMAIN cycles :
       /\ cycles[k].pc \in Running
       /\ cycles[k].scripts \in Listings
       /\ cycles[k].idx \in 0..MaxListing
       /\ cycles[k].attempt \in 0..MAX_RETRIES
  /\ delivered \in SUBSET Ids
  /\ failed \in SUBSET Ids
  /\ hist \in {"off", "delivery", "cycle", "store", "fetch", "session", "filter"}
  /\ loaded \in SUBSET Ids
  /\ leaked \in 0..MaxLoops

\* module level of main.py (lines 25-27) plus the environment the process finds
InitProgram ==
  /\ file \in InitFiles
  /\ same_fs \in BOOLEAN
  /\ posted_ids = {}
  /\ is_checking = FALSE
  /\ http_session = "None"
  /\ starting = 0
  /\ sleeping = 0
  /\ cycles = <<>>
  /\ ev = NoEvent
  /\ delivered = {}
  /\ failed = {}
  /\ cyc = NoCycle
  /\ last = NoLast
  /\ loaded = {}
  /\ leaked = 0

Init == InitProgram /\ hist = "off"
InitDelivery == InitProgram /\ hist = "delivery"
InitCycle == InitProgram /\ hist = "cycle"
InitStore == InitProgram /\ hist = "store"
InitFetch == InitProgram /\ hist = "fetch"
InitSession == InitProgram /\ hist = "session"

(***************************************************************************)
(* The process is killed (power loss, SIGKILL) and started again: the file *)
(* system keeps what it has, every global is back at its module-level      *)
(* value and no task exists.  Killed(f, e) leaves f in posted.json.        *)
(***************************************************************************)
Killed(f, e) ==
  /\ file' = f
  /\ posted_ids' = {}
  /\ is_checking' = FALSE
  /\ http_session' = "None"
  /\ starting' = 0
  /\ sleeping' = 0
  /\ cycles' = <<>>
  /\ ev' = e
  /\ delivered' = {}
  /\ failed' = {}
  /\ cyc' = NoCycle
  /\ last' = NoLast
  /\ loaded' = {}
  /\ leaked' = 0
  /\ UNCHANGED <<same_fs, hist>>

\* killed inside save_posted_ids(ids) with outcome r
KilledInSave(r, ids) ==
  Killed(r.file, [NoEvent EXCEPT !.op = "crash", !.save = "crash", !.ids = ids])

Crash == Killed(file, Event("crash"))

(***************************************************************************)
(* process_scripts                                                         *)
(***************************************************************************)
\* line 268: live_ids = {s.get("_id") for s in scripts if s.get("_id")}
LiveIds(s) == {s[k]._id : k \in {j \in 1..Len(s) : s[j]._id # NoId}}

\* lines 74-79 of cleanup_removed_scripts: the set after the discards
cleanup_removed_scripts(ids, live_ids) == ids \ {sid \in ids : sid \notin live_ids}

\* lines 275-279 without the `continue` of the Validity Filter
Skipped_unfiltered(item, ids) ==
  \/ item._id = NoId
  \/ item._id \in ids

\* lines 275-279: the item is skipped by one of the two `continue`s
Skipped(item, ids) ==
  \/ item._id = NoId
  \/ item._id \in ids
  \/ script_is_broken(item)

\* the first index from i on whose item reaches webhook_send; 0 when none does
NextIdx(s, ids, i) ==
  LET cand == {j \in i..Len(s) : ~Skipped(s[j], ids)}
  IN  IF cand = {} THEN 0 ELSE CHOOSE j \in cand : \A k \in cand : j <= k

\* the guard of line 261 left out: every call goes on to fetch
guard_never(flag) == FALSE

\* line 261: the re-entrancy guard
guard(flag) == flag

\* the reset of line 292 left out: the flag keeps its value
finally_keeps(flag) == flag

\* lines 291-292: the finally clause
finally(flag) == FALSE

\* lines 273-292 for invocation k: the for loop from position i on, with
\* posted_ids = ids, up to the await of the next webhook post or, when no item
\* is left, through the finally and back into the sleep of main_loop
Resume(k, ids, s, i) ==
  LET j == NextIdx(s, ids, i)
  IN  /\ posted_ids' = ids
      /\ starting' = starting
      /\ IF j = 0
         THEN /\ is_checking' = finally(is_checking)
              /\ cycles' = RemoveAt(cycles, k)
              /\ sleeping' = sleeping + 1
         ELSE /\ is_checking' = is_checking
              /\ cycles' = [cycles EXCEPT ![k] = Cycle("post", s, j, 0)]
              /\ sleeping' = sleeping

\* history of a step that fetched s while posted_ids was S and pruned it to ids
FetchHistory(s, S, ids) ==
  IF hist # "cycle" THEN UNCHANGED <<cyc, last>>
  ELSE IF NextIdx(s, ids, 1) = 0
  THEN cyc' = NoCycle /\ last' = [ok |-> TRUE, s |-> s]
  ELSE cyc' = [S |-> S, D |-> {}, clean |-> TRUE] /\ UNCHANGED last

\* lines 268-271 then the for loop: what follows the return of fetch_scripts
AfterFetchOf(k, s, op, body, w) ==
  LET kept == cleanup_removed_scripts(posted_ids, LiveIds(s))
      e == [NoEvent EXCEPT !.op = op,
                           !.s = IF hist \in {"cycle", "store", "fetch"} THEN s ELSE <<>>,
                           !.body = body, !.wait = w]
  IN  IF kept = posted_ids
      THEN /\ Resume(k, posted_ids, s, 1)
           /\ ev' = e
           /\ FetchHistory(s, posted_ids, posted_ids)
           /\ UNCHANGED <<file, same_fs, http_session, hist, loaded, leaked, delivered, failed>>
      ELSE \E r \in save_posted_ids(kept, file, same_fs) :
             IF r.status = "crash"
             THEN KilledInSave(r, kept)
             ELSE /\ Resume(k, kept, s, 1)
                  /\ file' = r.file
                  /\ ev' = [e EXCEPT !.save = r.status]
                  /\ FetchHistory(s, posted_ids, kept)
                  /\ UNCHANGED <<same_fs, http_session, hist, loaded, leaked, delivered, failed>>

AfterFetch(k, s, op) == AfterFetchOf(k, s, op, "none", 0)

\* lines 261-266 and 147-152: entry of process_scripts up to the first request,
\* called by a task that leaves st tasks starting and sl tasks sleeping
Enter(session, st, sl) ==
  /\ starting' = st
  /\ IF guard(is_checking)
     THEN /\ sleeping' = sl + 1
          /\ http_session' = session
          /\ ev' = Event("noop")
          /\ UNCHANGED <<file, same_fs, posted_ids, is_checking, cycles, hist, loaded,
                         delivered, failed, cyc, last>>
     ELSE /\ sleeping' = sl
          /\ is_checking' = TRUE
          /\ http_session' = "open"
          /\ cycles' = Append(cycles, Cycle("get", <<>>, 0, 1))
          /\ ev' = Event("enter")
          /\ UNCHANGED <<file, same_fs, posted_ids, hist, loaded, delivered, failed,
                         cyc, last>>

\* main_loop lines 299-305: create_session, then the first process_scripts.
\* create_session (line 131) assigns http_session without closing the session
\* it may hold.
LoopStart ==
  /\ starting > 0
  /\ leaked' = IF hist = "session" /\ http_session = "open" THEN leaked + 1 ELSE leaked
  /\ Enter("open", starting - 1, sleeping)

\* main_loop lines 304-306: the sleep is over, process_scripts is called again
Call ==
  /\ sleeping > 0
  /\ Enter(http_session, starting, sleeping - 1)
  /\ UNCHANGED leaked

\* the loop of line 150 runs one attempt too many
attempts_left_off_by_one(attempt) == attempt <= MAX_RETRIES

\* line 150: `for attempt in range(1, MAX_RETRIES + 1)` has a next iteration
attempts_left(attempt) == attempt < MAX_RETRIES

\* lines 155 and 164: `await asyncio.sleep(attempt)` after a failed attempt
backoff(attempt) == attempt

\* bodies of a status-200 response without a usable listing: "result" absent,
\* "result" null (or no object), "scripts" absent, "scripts" null, "scripts"
\* a value that is no list
MalformedBodies == {"no_result", "null_result", "no_scripts", "null_scripts", "bad_scripts"}

\* lines 158-160 on such a body: `data.get("result", {})` and
\* `result.get("scripts", [])` give [] for an absent key ("empty"); .get on a
\* null result raises AttributeError inside the try ("raises"); a "scripts"
\* value that is present is returned as it is ("passed")
result_scripts(body) ==
  CASE body \in {"no_result", "no_scripts"} -> "empty"
    [] body = "null_result" -> "raises"
    [] OTHER -> "passed"

\* the body and the back-off are recorded in the history of SpecFetch only
Noted(x, none) == IF hist = "fetch" THEN x ELSE none

\* lines 153-156 and 162-164: attempt cycles[k].attempt has failed: back-off
\* sleep, then the next attempt or, after the last one, `return []` (line 167)
AttemptFailed(k, body) ==
  LET w == Noted(backoff(cycles[k].attempt), 0)
  IN  IF attempts_left(cycles[k].attempt)
      THEN /\ cycles' = [cycles EXCEPT ![k].attempt = @ + 1]
           /\ ev' = [NoEvent EXCEPT !.op = "retry", !.body = body, !.wait = w]
           /\ UNCHANGED <<file, same_fs, posted_ids, is_checking, http_session,
                          starting, sleeping, hist, loaded, leaked, delivered, failed,
                          cyc, last>>
      ELSE AfterFetchOf(k, <<>>, "exhausted", body, w)

\* fetch_scripts lines 150-167: an attempt failed (status, exception, or
\* AttributeError on http_session = None); after the last one `return []`
FetchFail(k) ==
  /\ k \in DOMAIN cycles
  /\ cycles[k].pc = "get"
  /\ AttemptFailed(k, "none")

\* status 200 with a malformed body that fetch_scripts answers with [] or
\* counts as a failed attempt
FetchMalformed(k) ==
  /\ k \in DOMAIN cycles
  /\ cycles[k].pc = "get"
  /\ http_session = "open"
  /\ \E body \in MalformedBodies :
       CASE result_scripts(body) = "empty" ->
              AfterFetchOf(k, <<>>, "fetched", Noted(body, "none"), 0)
         [] result_scripts(body) = "raises" -> AttemptFailed(k, Noted(body, "none"))
         [] OTHER -> FALSE

\* fetch_scripts lines 152-160: status 200 and a list of scripts
FetchOk(k) ==
  /\ k \in DOMAIN cycles
  /\ cycles[k].pc = "get"
  /\ http_session = "open"
  /\ \E s \in Listings : AfterFetch(k, s, "fetched")

\* status 200 with {"result": {"scripts": null}} (or a "scripts" that is no
\* list of objects): line 160 returns it and line 268 raises TypeError or
\* AttributeError, caught at 288; the finally resets the flag
FetchNull(k) ==
  /\ k \in DOMAIN cycles
  /\ cycles[k].pc = "get"
  /\ http_session = "open"
  /\ is_checking' = finally(is_checking)
  /\ cycles' = RemoveAt(cycles, k)
  /\ sleeping' = sleeping + 1
  /\ \E body \in {b \in MalformedBodies : result_scripts(b) = "passed"} :
       ev' = [NoEvent EXCEPT !.op = "raised", !.body = Noted(body, "none")]
  /\ last' = NoLast
  /\ UNCHANGED <<file, same_fs, posted_ids, http_session, starting, hist, loaded, leaked,
                 delivered, failed, cyc>>

\* webhook_send lines 217-219 returned True; lines 282-286
PostAccepted(k) ==
  /\ k \in DOMAIN cycles
  /\ cycles[k].pc = "post"
  /\ http_session = "open"
  /\ LET sid == cycles[k].scripts[cycles[k].idx]._id
         ids == posted_ids \cup {sid}
     IN  \E r \in save_posted_ids(ids, file, same_fs) :
           IF r.status = "crash"
           THEN KilledInSave(r, ids)
           ELSE /\ posted_ids' = ids
                /\ file' = r.file
                /\ cycles' = [cycles EXCEPT ![k].pc = "pause"]
                /\ ev' = [NoEvent EXCEPT !.op = "accepted", !.id = sid,
                                         !.save = r.status]
                /\ IF hist = "delivery"
                   THEN delivered' = delivered \cup {sid} /\ failed' = failed \ {sid}
                   ELSE IF hist = "store"
                   THEN delivered' = delivered \cup {sid} /\ failed' = failed
                   ELSE UNCHANGED <<delivered, failed>>
                /\ IF hist = "cycle"
                   THEN cyc' = [cyc EXCEPT !.D = cyc.D \cup {sid}]
                   ELSE UNCHANGED cyc
                /\ UNCHANGED <<same_fs, is_checking, http_session, starting,
                               sleeping, hist, loaded, leaked, last>>

\* webhook_send returned False: status not in (200, 204), or the post raised
\* (also AttributeError on http_session = None), caught at line 220
PostFailed(k) ==
  /\ k \in DOMAIN cycles
  /\ cycles[k].pc = "post"
  /\ cycles' = [cycles EXCEPT ![k].pc = "pause"]
  /\ LET sid == cycles[k].scripts[cycles[k].idx]._id
     IN  /\ ev' = [NoEvent EXCEPT !.op = "rejected", !.id = sid]
         /\ IF hist = "delivery"
            THEN failed' = failed \cup {sid}
            ELSE UNCHANGED failed
  /\ IF hist = "cycle"
     THEN cyc' = [cyc EXCEPT !.clean = FALSE]
     ELSE UNCHANGED cyc
  /\ UNCHANGED <<file, same_fs, posted_ids, is_checking, http_session, starting,
                 sleeping, hist, loaded, leaked, delivered, last>>

\* line 286 is over: the for loop goes on
Pause(k) ==
  /\ k \in DOMAIN cycles
  /\ cycles[k].pc = "pause"
  /\ Resume(k, posted_ids, cycles[k].scripts, cycles[k].idx + 1)
  /\ ev' = Event("resume")
  /\ IF hist = "cycle" /\ NextIdx(cycles[k].scripts, posted_ids, cycles[k].idx + 1) = 0
     THEN /\ cyc' = NoCycle
          /\ last' = IF cyc.clean THEN [ok |-> TRUE, s |-> cycles[k].scripts]
                     ELSE NoLast
     ELSE UNCHANGED <<cyc, last>>
  /\ UNCHANGED <<file, same_fs, http_session, hist, loaded, leaked, delivered, failed>>

(***************************************************************************)
(* Event handlers                                                          *)
(***************************************************************************)
\* on_ready lines 322-324: load_posted_ids, then a new main_loop task
OnReady ==
  /\ Tasks < MaxLoops
  /\ LET ld == load_posted_ids(file)
         e == [NoEvent EXCEPT !.op = "ready", !.after_save = (ev.save = "ok")]
     IN  IF ld.resave
         THEN \E r \in save_posted_ids(ld.ids, file, same_fs) :
                IF r.status = "crash"
                THEN KilledInSave(r, ld.ids)
                ELSE /\ posted_ids' = ld.ids
                     /\ file' = r.file
                     /\ starting' = starting + 1
                     /\ ev' = [e EXCEPT !.save = r.status]
                     /\ loaded' = loaded
                     /\ UNCHANGED <<same_fs, is_checking, http_session, sleeping,
                                    cycles, hist, leaked, delivered, failed, cyc, last>>
         ELSE /\ posted_ids' = ld.ids
              /\ starting' = starting + 1
              /\ ev' = e
              /\ loaded' = IF hist = "store" THEN loaded \cup ld.ids ELSE loaded
              /\ UNCHANGED <<file, same_fs, is_checking, http_session, sleeping,
                             cycles, hist, leaked, delivered, failed, cyc, last>>

\* on_disconnect -> close_session lines 137-139
OnDisconnect ==
  /\ http_session = "open"
  /\ http_session' = "None"
  /\ ev' = Event("disconnect")
  /\ UNCHANGED <<file, same_fs, posted_ids, is_checking, starting, sleeping,
                 cycles, hist, loaded, leaked, delivered, failed, cyc, last>>

\* on_interaction lines 229-252 with a "copy:" button: fetch_scripts creates a
\* session when there is none (lines 147-148); its requests and its reply
\* change no variable of the program, so with a session open it is a
\* stuttering step
OnInteraction ==
  /\ http_session = "None"
  /\ http_session' = "open"
  /\ ev' = Event("interaction")
  /\ UNCHANGED <<file, same_fs, posted_ids, is_checking, starting, sleeping,
                 cycles, hist, loaded, leaked, delivered, failed, cyc, last>>

\* lines 336-340: client.run returns, the finally closes the session that
\* http_session refers to, the process ends and is started again later
Shutdown ==
  /\ Tasks > 0
  /\ Killed(file, Event("shutdown"))

\* an await of invocation k returns
CycleStep(k) ==
  \/ FetchFail(k)
  \/ FetchOk(k)
  \/ FetchMalformed(k)
  \/ FetchNull(k)
  \/ PostAccepted(k)
  \/ PostFailed(k)
  \/ Pause(k)

Next ==
  \/ OnReady
  \/ OnDisconnect
  \/ OnInteraction
  \/ Shutdown
  \/ Crash
  \/ LoopStart
  \/ Call
  \/ \E k \in 1..MaxLoops : CycleStep(k)

Spec == Init /\ [][Next]_vars
SpecDelivery == InitDelivery /\ [][Next]_vars
SpecCycle == InitCycle /\ [][Next]_vars
SpecStore == InitStore /\ [][Next]_vars
SpecFetch == InitFetch /\ [][Next]_vars
SpecSession == InitSession /\ [][Next]_vars

\* every await of a running cycle returns: requests run under
\* ClientTimeout(total=15) (line 131) and the sleeps are finite
FairSpec == Spec /\ \A k \in 1..MaxLoops : WF_vars(CycleStep(k))

(***************************************************************************)
(* script_is_broken on its own: the argument is drawn from FilterInputs,   *)
(* the call records its result.                                            *)
(***************************************************************************)
Upper(c) ==
  CASE c = "n" -> "N"
    [] c = "i" -> "I"
    [] c = "l" -> "L"
    [] c = "e" -> "E"
    [] c = "r" -> "R"
    [] c = "o" -> "O"
    [] c = "f" -> "F"
    [] c = "a" -> "A"
    [] c = "v" -> "V"
    [] c = "d" -> "D"
    [] c = "p" -> "P"
    [] c = "t" -> "T"
    [] c = "c" -> "C"
    [] c = "h" -> "H"
    [] OTHER -> c

UpperSeq(s) == [k \in 1..Len(s) |-> Upper(s[k])]

\* the first character in upper case only
Capitalized(s) == [k \in 1..Len(s) |-> IF k = 1 THEN Upper(s[k]) ELSE s[k]]

\* texts one character away from a banned token
NearMisses ==
  { <<"e", "r", "o", "r">>,
    <<"n", "i", "i">>,
    <<"i", "n", "v", "a", "l", "d">>,
    <<"f", "a", "l", "l">>,
    <<"p", "a", "t", "c", "h", "e", "s">> }

Padding == {<<>>, <<"x">>, <<"x", "x">>}

\* every text of up to MinScriptLen characters over a small alphabet, and the
\* banned tokens and their near misses in three spellings with padding around
FilterScripts ==
  SeqsUpTo({"n", "I", "l", "x"}, MinScriptLen)
  \cup {pre \o w \o post :
          pre \in Padding, post \in Padding,
          w \in UNION {{b, UpperSeq(b), Capitalized(b)} : b \in banned \cup NearMisses}}

FilterInputs == {Item("a", s, p) : s \in FilterScripts, p \in BOOLEAN}

InitFilter ==
  /\ file = NoFile
  /\ same_fs = TRUE
  /\ posted_ids \in SUBSET Ids
  /\ is_checking = FALSE
  /\ http_session = "None"
  /\ starting = 0
  /\ sleeping = 0
  /\ cycles = <<>>
  /\ \E item \in FilterInputs : ev = [NoEvent EXCEPT !.op = "input", !.s = <<item>>]
  /\ hist = "filter"
  /\ delivered = {}
  /\ failed = {}
  /\ cyc = NoCycle
  /\ last = NoLast
  /\ loaded = {}
  /\ leaked = 0

\* lines 88-98: one call script_is_broken(ev.s[1])
CallFilter ==
  /\ ev.op = "input"
  /\ ev' = [ev EXCEPT !.op = IF script_is_broken(ev.s[1]) THEN "broken" ELSE "intact"]
  /\ UNCHANGED <<file, same_fs, posted_ids, is_checking, http_session, starting,
                 sleeping, cycles, hist, delivered, failed, cyc, last, loaded, leaked>>

NextFilter == CallFilter

SpecFilter == InitFilter /\ [][NextFilter]_vars

(***************************************************************************)
(* Claims                                                                  *)
(***************************************************************************)

\* C1: when all MAX_RETRIES attempts of a cycle fail, the cycle prunes nothing:
\* posted_ids and posted.json are the same after the step that exhausts the
\* retries (fetch_scripts returned [], process_scripts went on) as before it.
C1_ExhaustionLeavesStore ==
  [][ev'.op = "exhausted" => posted_ids' = posted_ids /\ file' = file]_vars

\* C2: within one process no identifier is accepted by the sink a second time.
C2_AtMostOnceDelivery ==
  [][ev'.op = "accepted" => ev'.id \notin delivered]_vars

\* identifiers of the items of s that have one and are not broken
ValidIds(s) ==
  {s[k]._id : k \in {j \in 1..Len(s) : s[j]._id # NoId /\ ~script_is_broken(s[j])}}

\* C3: when a cycle fetches the listing of the cycle before it and every
\* delivery attempt of that cycle was accepted, it makes no delivery attempt
\* and leaves posted_ids and posted.json as they are, every valid identifier of
\* the listing is recorded as delivered, and no cycle delivers an identifier
\* twice (also with the identifier twice in the listing).
C3_RepeatedCycleIdempotent ==
  /\ [][(ev'.op \in {"fetched", "exhausted"} /\ last.ok /\ last.s = ev'.s)
        => /\ Len(cycles') < Len(cycles)
           /\ posted_ids' = posted_ids
           /\ file' = file
           /\ ValidIds(ev'.s) \subseteq posted_ids']_vars
  /\ [][ev'.op = "accepted" => ev'.id \notin cyc.D]_vars

\* C4: a cycle whose fetch succeeded with live set L, started with stored set
\* S, ends with posted_ids = (S \cap L) \cup D, D the identifiers of L \ S
\* accepted in the cycle, each for an item that is not broken; nothing of
\* S \ L and nothing outside L is left.
C4_After(S, L, D) ==
  /\ posted_ids' = (S \cap L) \cup D
  /\ D \subseteq L \ S
  /\ posted_ids' \cap (S \ L) = {}
  /\ posted_ids' \subseteq L

C4_PruneResult ==
  /\ [][(ev'.op = "fetched" /\ Len(cycles') < Len(cycles))
        => C4_After(posted_ids, LiveIds(ev'.s), {})]_vars
  /\ [][\A k \in DOMAIN cycles :
          (cycles[k].pc = "pause" /\ ev'.op = "resume" /\ Len(cycles') < Len(cycles))
          => C4_After(cyc.S, LiveIds(cycles[k].scripts), cyc.D)]_vars
  /\ [][\A k \in DOMAIN cycles :
          (cycles[k].pc = "post" /\ ev'.op = "accepted")
          => ~script_is_broken(cycles[k].scripts[cycles[k].idx])]_vars

\* C5: at most one cycle is RUNNING at any time, and a process_scripts call made
\* while one is RUNNING returns at once: it starts no fetch, delivers and saves
\* nothing, leaves posted_ids alone and leaves is_checking set.
C5_ReentrancyGuard ==
  /\ [](Len(cycles) <= 1)
  /\ [][(ev'.op \in {"noop", "enter"} /\ Len(cycles) > 0)
        => /\ ev'.op = "noop"
           /\ is_checking /\ is_checking'
           /\ starting' + sleeping' = starting + sleeping
           /\ UNCHANGED <<file, posted_ids, cycles>>]_vars

C5_Witness ==
  /\ ev.op = "noop"
  /\ is_checking
  /\ \E k \in DOMAIN cycles : cycles[k].pc = "post"

\* C6: every cycle that enters RUNNING comes back to IDLE; a cycle leaves
\* RUNNING only with is_checking reset and its main_loop task in the sleep of
\* line 306 (also when the cycle raised), and a process_scripts call made
\* while no cycle is RUNNING starts a full cycle with a first fetch attempt.
C6_CycleReturnsToIdle ==
  /\ (Len(cycles) > 0) ~> (Len(cycles) = 0 /\ ~is_checking)
  /\ [][(Len(cycles') < Len(cycles) /\ ev'.op \notin {"crash", "shutdown"})
        => ~is_checking' /\ sleeping' = sleeping + 1]_vars
  /\ [][(ev'.op \in {"noop", "enter"} /\ Len(cycles) = 0)
        => /\ ev'.op = "enter"
           /\ is_checking'
           /\ cycles' = <<Cycle("get", <<>>, 0, 1)>>]_vars

\* a cycle has raised: the engine is IDLE and the task sleeps until its next call
C6_Witness ==
  /\ ev.op = "raised"
  /\ ~is_checking
  /\ cycles = <<>>
  /\ sleeping > 0

\* C7: a delivery that is rejected or raises adds nothing to posted_ids and
\* saves nothing, and the cycle goes on behind the item; an identifier whose
\* latest delivery attempt failed is not in posted_ids, so the next cycle that
\* finds the item in its listing attempts it again.
C7_FailedDeliveryNotRecorded ==
  /\ [][\A k \in DOMAIN cycles :
          (cycles[k].pc = "post" /\ ev'.op = "rejected")
          => /\ posted_ids' = posted_ids
             /\ file' = file
             /\ is_checking' = is_checking
             /\ cycles' = [cycles EXCEPT ![k].pc = "pause"]]_vars
  /\ [][\A k \in DOMAIN cycles :
          (cycles[k].pc = "pause" /\ ev'.op = "resume")
          => \A j \in (cycles[k].idx + 1)..Len(cycles[k].scripts) :
               \/ Skipped(cycles[k].scripts[j], posted_ids)
               \/ /\ Len(cycles') = Len(cycles)
                  /\ cycles'[k].pc = "post"
                  /\ cycles'[k].idx <= j]_vars
  /\ [](failed \cap posted_ids = {})

\* C8: a save of posted_ids that succeeded, followed by a load, leaves
\* posted_ids equal to the set that was saved (the empty set included).
C8_SaveLoadRoundTrip ==
  [][(ev.save = "ok" /\ ev'.op = "ready") => posted_ids' = posted_ids]_vars

C8_Witness ==
  /\ ev.op = "ready"
  /\ ev.after_save
  /\ posted_ids = Ids

\* posted.json exists and json.load raises on it
Corrupt(f) == f # NoFile /\ json_load(f).kind = "error"

\* C9 as claimed: a load that finds invalid JSON empties posted_ids and leaves
\* posted.json holding the well-formed empty array.
C9_LoadRewritesCorruptFile ==
  [][(ev'.op = "ready" /\ Corrupt(file))
     => posted_ids' = {} /\ file' = json_dump(<<>>)]_vars

\* C9 amended: a load that finds invalid JSON empties posted_ids and calls
\* save_posted_ids; when that save succeeds posted.json holds the well-formed
\* empty array, and whether it succeeds or not a later load yields the empty set.
C9_LoadRecoversFromCorruptFile ==
  [][(ev'.op = "ready" /\ Corrupt(file))
     => /\ posted_ids' = {}
        /\ ev'.save \in {"ok", "error"}
        /\ (ev'.save = "ok" => file' = json_dump(<<>>))
        /\ load_posted_ids(file').ids = {}]_vars

C9_Witness ==
  /\ ev.op = "ready"
  /\ ev.save = "ok"
  /\ file = json_dump(<<>>)
  /\ posted_ids = {}

\* C10: when the process is killed inside save_posted_ids(ids), posted.json is
\* what it was before the call or a complete dump of ids.
C10_CrashLeavesOldOrNew ==
  [][(ev'.op = "crash" /\ ev'.save = "crash")
     => (file' = file \/ file' \in Dumps(ev'.ids))]_vars

\* an invocation of fetch_scripts has a request (or its back-off) pending
Fetching == \E k \in DOMAIN cycles : cycles[k].pc = "get"

\* C11: a call of fetch_scripts issues at most MAX_RETRIES requests, none after
\* the first attempt that succeeds; when the last attempt fails it returns []
\* without raising (the cycle prunes against the empty live set and ends with
\* no delivery); and every call terminates.
C11_BoundedRetry ==
  /\ [](\A k \in DOMAIN cycles :
          cycles[k].pc = "get" => cycles[k].attempt \in 1..MAX_RETRIES)
  /\ [][\A k \in DOMAIN cycles :
          (cycles[k].pc = "get" /\ ev'.op \in {"fetched", "raised"})
          => (Len(cycles') < Len(cycles) \/ cycles'[k].pc # "get")]_vars
  /\ [][\A k \in DOMAIN cycles :
          (cycles[k].pc = "get" /\ ev'.op = "retry")
          => /\ cycles[k].attempt < MAX_RETRIES
             /\ cycles' = [cycles EXCEPT ![k].attempt = cycles[k].attempt + 1]]_vars
  /\ [][\A k \in DOMAIN cycles :
          (cycles[k].pc = "get" /\ ev'.op = "exhausted")
          => /\ cycles[k].attempt = MAX_RETRIES
             /\ Len(cycles') < Len(cycles)
             /\ ~is_checking'
             /\ posted_ids' = cleanup_removed_scripts(posted_ids, {})]_vars
  /\ Fetching ~> ~Fetching

\* all MAX_RETRIES attempts have failed and the cycle has ended
C11_Witness ==
  /\ ev.op = "exhausted"
  /\ cycles = <<>>
  /\ ~is_checking
  /\ sleeping > 0

\* the tokens of the claim
C12_Tokens ==
  { <<"e", "r", "r", "o", "r">>, <<"n", "i", "l">>,
    <<"i", "n", "v", "a", "l", "i", "d">>, <<"f", "a", "i", "l">>,
    <<"p", "a", "t", "c", "h", "e", "d">> }

\* the item is broken as the claim defines it
C12_Broken(item) ==
  \/ item.isPatched
  \/ Len(item.script) < 5
  \/ \E tok \in C12_Tokens : \E i \in 0..(Len(item.script) - Len(tok)) :
       \A j \in 1..Len(tok) : Lower(item.script[i + j]) = tok[j]

\* C12: script_is_broken returns true exactly for the items that are patched,
\* or whose script is absent or shorter than 5 characters, or whose lowercased
\* script contains error, nil, invalid, fail or patched; the call changes no
\* variable of the program.
C12_FilterDecides ==
  /\ [](ev.op \in {"broken", "intact"} => (ev.op = "broken") = C12_Broken(ev.s[1]))
  /\ [][ev'.op \in {"broken", "intact"}
        => UNCHANGED <<file, posted_ids, is_checking, http_session, cycles>>]_vars

\* a script of five characters or more, not patched, with a banned token in
\* capitals, was found broken
C12_Witness ==
  /\ ev.op = "broken"
  /\ ~ev.s[1].isPatched
  /\ ev.s[1].script = <<"x", "N", "I", "L", "x">>
  /\ posted_ids = Ids

\* a near miss of five characters or more was found intact
C12_WitnessIntact ==
  /\ ev.op = "intact"
  /\ ev.s[1].script = <<"x", "e", "r", "o", "r">>

\* C13: when a cycle whose fetch succeeded ends, posted_ids is exactly the
\* identifiers delivered in this process or read from posted.json that are in
\* the live set of that fetch; and an identifier enters posted_ids only in the
\* step that follows its accepted delivery (or by a load of posted.json).
C13_Exactly(L) == posted_ids' = (delivered' \cup loaded') \cap L

C14_Deliverable(item, ids) ==
  /\ item._id # NoId
  /\ item._id \notin ids
  /\ ~script_is_broken(item)

\* C14: a cycle examines its listing front to back; it attempts the delivery
\* of an item exactly when the item has an identifier, the identifier is not
\* in posted_ids when the item is examined and the item is not broken: the
\* items it passes over before an attempt, and all that are left when it ends,
\* fail one of the three conditions, and the item it attempts meets them.  An
\* item whose delivery is accepted is not broken, and no step of a cycle adds
\* an identifier other than that of the item just accepted.
C14_OrderAndFilter ==
  /\ [][\A k \in DOMAIN cycles :
          (Len(cycles') = Len(cycles) /\ cycles[k].pc \in {"get", "pause"}
             /\ cycles'[k].pc = "post")
          => LET s == cycles'[k].scripts
                 j == cycles'[k].idx
             IN  /\ cycles[k].pc = "pause" => s = cycles[k].scripts
                 /\ j \in (cycles[k].idx + 1)..Len(s)
                 /\ \A m \in (cycles[k].idx + 1)..(j - 1) :
                      ~C14_Deliverable(s[m], posted_ids')
                 /\ C14_Deliverable(s[j], posted_ids')]_vars
  /\ [][\A k \in DOMAIN cycles :
          (cycles[k].pc = "pause" /\ ev'.op = "resume" /\ Len(cycles') < Len(cycles))
          => \A m \in (cycles[k].idx + 1)..Len(cycles[k].scripts) :
               ~C14_Deliverable(cycles[k].scripts[m], posted_ids')]_vars
  /\ [][(ev'.op = "fetched" /\ Len(cycles') < Len(cycles))
        => \A m \in 1..Len(ev'.s) : ~C14_Deliverable(ev'.s[m], posted_ids')]_vars
  /\ [][\A k \in DOMAIN cycles :
          (cycles[k].pc = "post" /\ ev'.op = "accepted")
          => /\ ~script_is_broken(cycles[k].scripts[cycles[k].idx])
             /\ posted_ids' = posted_ids \cup {cycles[k].scripts[cycles[k].idx]._id}]_vars
  /\ [][ev'.op \in {"fetched", "exhausted", "retry", "raised", "rejected", "resume",
                    "enter", "noop"}
        => posted_ids' \subseteq posted_ids]_vars

\* the cycle has passed over a broken item with a fresh identifier and is
\* attempting the item behind it
C14_Witness ==
  \E k \in DOMAIN cycles :
    /\ cycles[k].pc = "post"
    /\ cycles[k].idx = 2
    /\ cycles[k].scripts[1] = Item("b", BannedScript, FALSE)
    /\ "b" \notin posted_ids
    /\ cycles[k].scripts[2]._id = "a"

\* posted.json holds posted_ids, as load_posted_ids reads it
Synced == load_posted_ids(file).ids = posted_ids

\* C15: the step of an accepted delivery adds the identifier and makes one
\* save before the cycle goes on; the pruning step makes one save when it
\* removed an identifier and none otherwise; a save that succeeds leaves
\* posted.json a dump of posted_ids; so as long as no save fails posted.json
\* holds posted_ids after the load and after every step.
C15_PersistencePoints ==
  /\ [][\A k \in DOMAIN cycles :
          (cycles[k].pc = "post" /\ ev'.op = "accepted")
          => /\ ev'.save \in {"ok", "error"}
             /\ posted_ids' = posted_ids \cup {ev'.id}
             /\ cycles'[k].pc = "pause"]_vars
  /\ [][ev'.op \in {"fetched", "exhausted"}
        => /\ (posted_ids' # posted_ids) <=> (ev'.save \in {"ok", "error"})
           /\ ev'.save = "none" => file' = file]_vars
  /\ [][ev'.op \in {"retry", "raised", "rejected", "resume", "enter", "noop"}
        => ev'.save = "none" /\ file' = file]_vars
  /\ [][ev'.save = "ok" => file' \in Dumps(posted_ids')]_vars
  /\ [][(ev'.save # "error" /\ ev'.op \notin {"crash", "shutdown"}
           /\ (Synced \/ ev'.op = "ready"))
        => Synced']_vars

\* a second delivery of one cycle has been accepted and saved
C15_Witness ==
  /\ ev.op = "accepted"
  /\ ev.save = "ok"
  /\ posted_ids = Ids
  /\ file \in Dumps(Ids)
  /\ \E k \in DOMAIN cycles : cycles[k].pc = "pause" /\ cycles[k].idx = 2

\* C16: a save that fails leaves posted.json as it was, and the next save that
\* succeeds leaves it a dump of posted_ids.
C16_SaveFailureKeepsFile ==
  /\ [][ev'.save = "error" => file' = file]_vars
  /\ [][ev'.save = "ok" => load_posted_ids(file').ids = posted_ids']_vars

\* posted.json holds well-formed JSON that is not an array
WrongShape(f) == f # NoFile /\ json_load(f).kind = "other"

\* C17: a load that finds well-formed JSON that is not an array empties
\* posted_ids and leaves posted.json holding the well-formed empty array.
C17_WrongShapeRewritten ==
  [][(ev'.op = "ready" /\ WrongShape(file))
     => posted_ids' = {} /\ file' = json_dump(<<>>)]_vars

\* C18: a status-200 response with a malformed body makes fetch_scripts
\* return [] without raising: the cycle prunes against the empty live set and
\* ends as a cycle with an empty listing does.
C18_MalformedListingIsEmpty ==
  [][\A k \in DOMAIN cycles :
       (cycles[k].pc = "get" /\ ev'.body \in MalformedBodies)
       => /\ ev'.op = "fetched"
          /\ ev'.s = <<>>
          /\ Len(cycles') < Len(cycles)
          /\ ~is_checking'
          /\ posted_ids' = cleanup_removed_scripts(posted_ids, {})]_vars

\* C19: after failed attempt n < MAX_RETRIES fetch_scripts waits n time units,
\* and after the last failed attempt it returns without waiting.
C19_BackoffSchedule ==
  /\ [][\A k \in DOMAIN cycles :
          (cycles[k].pc = "get" /\ ev'.op = "retry")
          => cycles[k].attempt < MAX_RETRIES /\ ev'.wait = cycles[k].attempt]_vars
  /\ [][ev'.op = "exhausted" => ev'.wait = 0]_vars

\* C20: no session reference is overwritten while the session is open, so at
\* most one session is open and none is left open when the process shuts
\* down; and whenever a cycle issues a request after a suspension (the next
\* attempt of fetch_scripts, the post of the next item) http_session is an
\* open session.
C20_SessionLifecycle ==
  /\ [](leaked = 0)
  /\ [][ev'.op = "shutdown" => leaked = 0]_vars
  /\ [][\A k \in DOMAIN cycles :
          (Len(cycles') = Len(cycles)
             /\ \/ ev'.op = "retry"
                \/ cycles[k].pc # "post" /\ cycles'[k].pc = "post")
          => http_session' = "open"]_vars

====
